---- MODULE Spec2Model ----
(***************************************************************************)
(* The task orchestration of the YouTube downloader: the DownloadTask      *)
(* entity, the TaskManager (store, worker pool, event queue, retry and     *)
(* cancel), the download and transcription services as they drive a task   *)
(* through its statuses, the JSON persistence, and the Flask endpoints     *)
(* that call them from concurrent request threads.                         *)
(***************************************************************************)
EXTENDS Integers, Sequences, FiniteSets, Bags, TLC

VARIABLES
    tasks,          \* TaskManager.tasks: id -> DownloadTask
    nextId,         \* the next fresh identifier (uuid4 never repeats); its
                    \* value also stands for datetime.now()
    backlog,        \* ThreadPoolExecutor work queue: submitted task ids, FIFO
    running,        \* bag of executions of _process_task on worker threads
    requests,       \* bag of request threads inside an endpoint handler
    status_queue,   \* TaskManager.status_queue: events not yet polled
    file,           \* tasks.json: the durable snapshot
    model_loaded,   \* TranscriptionService.model is not None
    last,           \* the response of the request that returned last
    issued,         \* requests received so far
    detached,       \* task objects deleted from TaskManager.tasks that a
                    \* thread or a submission still refers to: id -> task
    torn,           \* tasks.json does not hold a complete serialization
    progress_callbacks, \* TaskManager.progress_callbacks
    calls           \* the callbacks the latest _notify_progress invoked

vars == <<tasks, nextId, backlog, running, requests, status_queue, file,
          model_loaded, last, issued, detached, torn, progress_callbacks,
          calls>>

(***************************************************************************)
(* Bounds of the model.                                                    *)
(***************************************************************************)
MaxTasks == 2       \* identifiers that can be allocated
MaxPending == 3     \* pool entries waiting or running
MaxQueue == 1       \* events waiting in status_queue
MaxInflight == 2    \* request threads inside a handler at once
MaxRequests == 2    \* download, retry and cancel requests received
\* workers of the pool: Config.MAX_CONCURRENT_DOWNLOADS, which the deployment
\* sets through the environment
MAX_CONCURRENT_DOWNLOADS == 2

(***************************************************************************)
(* Program constants.                                                      *)
(***************************************************************************)
MAX_URLS_PER_REQUEST == 10
ENABLE_TRANSCRIPTION == TRUE

Urls == {"u1", "u2"}
Formats == {"mp3"}
FormatInputs == Formats \cup {"wav"}
Qualities == {"medium"}
Percents == {50}
NoTime == -1
None == "None"
CancelMessage == "Cancelled by user"
NotFoundMessage == "Output file not found after download"
FfmpegHelp ==
    "Postprocessing failed: ffmpeg not found. Install ffmpeg (https://ffmpeg.org/) or set FFMPEG_LOCATION environment variable."
\* what str(e) of a collaborator's exception can be
ErrTexts == {"ERROR: Video unavailable", "ffprobe and ffmpeg not found"}
HookErrText == "'float' object has no attribute 'strip'"
Texts == {"hello"}

(***************************************************************************)
(* DownloadStatus: the members, and the value of each member.              *)
(***************************************************************************)
DownloadStatus ==
    {"QUEUED", "DOWNLOADING", "CONVERTING", "TRANSCRIBING", "COMPLETED",
     "FAILED"}

StatusValue(s) ==
    CASE s = "QUEUED" -> "Queued"
      [] s = "DOWNLOADING" -> "Downloading"
      [] s = "CONVERTING" -> "Converting"
      [] s = "TRANSCRIBING" -> "Transcribing"
      [] s = "COMPLETED" -> "Completed"
      [] s = "FAILED" -> "Failed"

(***************************************************************************)
(* DownloadTask.                                                           *)
(***************************************************************************)
DownloadTask(id, url, format_type, quality, now) ==
    [id |-> id, url |-> url, format_type |-> format_type,
     quality |-> quality, status |-> "QUEUED", progress |-> 0,
     speed |-> "", eta |-> "", title |-> "", filename |-> "",
     error_message |-> "", transcription |-> "", created_at |-> now,
     completed_at |-> NoTime, metadata |-> [enable_transcription |-> FALSE]]

update_progress(t, progress, speed, eta) ==
    [t EXCEPT !.progress = progress, !.speed = speed, !.eta = eta]

set_status(t, status, error_message, now) ==
    [t EXCEPT !.status = status,
              !.error_message = IF error_message # "" THEN error_message ELSE @,
              !.completed_at = IF status = "COMPLETED" THEN now ELSE @]

set_metadata(t, title, filename) ==
    [t EXCEPT !.title = IF title # "" THEN title ELSE @,
              !.filename = IF filename # "" THEN filename ELSE @]

\* datetime.isoformat and datetime.fromisoformat
isoformat(d) == <<"iso", d>>
fromisoformat(s) == s[2]

to_dict(t) ==
    [id |-> t.id, url |-> t.url, format |-> t.format_type,
     quality |-> t.quality, status |-> StatusValue(t.status),
     progress |-> t.progress, speed |-> t.speed, eta |-> t.eta,
     title |-> t.title, filename |-> t.filename,
     error_message |-> t.error_message, transcription |-> t.transcription,
     created_at |-> isoformat(t.created_at),
     completed_at |-> IF t.completed_at # NoTime
                         THEN isoformat(t.completed_at) ELSE None,
     metadata |-> t.metadata]

\* the methods class DownloadTask defines
DownloadTaskMethods ==
    {"__init__", "update_progress", "set_status", "set_metadata", "to_dict"}

(***************************************************************************)
(* TaskPersistence.                                                        *)
(***************************************************************************)
save_tasks(store) == [id \in DOMAIN store |-> to_dict(store[id])]

\* datetime.fromisoformat raises ValueError on a string that is no timestamp
IsIsoformat(s) == s[1] = "iso"

\* One entry of load_tasks' loop: created_at is parsed, then
\* DownloadTask.from_dict is called; an exception skips the entry.
LoadsEntry(d) == IsIsoformat(d.created_at) /\ "from_dict" \in DownloadTaskMethods

load_tasks(snapshot) ==
    LET kept == {id \in DOMAIN snapshot : LoadsEntry(snapshot[id])}
    IN  [id \in kept |->
            [snapshot[id] EXCEPT
                !.created_at = fromisoformat(snapshot[id].created_at)]]

(***************************************************************************)
(* Helpers of the model.                                                   *)
(***************************************************************************)
NoResponse == [op |-> "none", id |-> 0, accepted |-> FALSE, code |-> 0,
               body |-> "", ret |-> None]

Response(op, id, accepted, code, body) ==
    [op |-> op, id |-> id, accepted |-> accepted, code |-> code,
     body |-> body, ret |-> None]

Ids == 1..MaxTasks

RECURSIVE SortedSeq(_)
SortedSeq(S) ==
    IF S = {} THEN <<>>
    ELSE LET m == CHOOSE x \in S : \A y \in S : x <= y
         IN  <<m>> \o SortedSeq(S \ {m})

RECURSIVE SumOver(_, _)
SumOver(B, S) ==
    IF S = {} THEN 0
    ELSE LET x == CHOOSE y \in S : TRUE
         IN  CopiesIn(x, B) * Len(x.urls) + SumOver(B, S \ {x})

\* identifiers the download requests in flight may still allocate
Reserved == SumOver(requests, BagToSet(requests))

Distinct(s) == \A i, j \in DOMAIN s : i # j => s[i] # s[j]

\* URLs in one download request
MaxBatch == 2
\* callbacks registered with add_progress_callback
MaxCallbacks == 2
\* events one get_status_updates call collects
MaxUpdates == 2
Batches ==
    {s \in UNION {[1..n -> Urls] : n \in 0..MaxBatch} : Distinct(s)}

Thread(kind, pc, id, urls, fmt, quality, tr) ==
    [kind |-> kind, pc |-> pc, id |-> id, urls |-> urls, format |-> fmt,
     quality |-> quality, transcription |-> tr, created |-> <<>>]

\* data: the task_data a save of this worker has built and not yet written
\* exc: str(e) of the exception on its way to _process_task's except
Execution(id) ==
    [task |-> id, pc |-> "info", tx |-> "none", data |-> <<>>, exc |-> None]

One(x) == SetToBag({x})

\* the thread or execution x moves on as y
Step(B, x, y) == (B (-) One(x)) (+) One(y)

PoolLoad == Len(backlog) + BagCardinality(running)

(***************************************************************************)
(* TaskManager._notify_progress and _save_tasks.                           *)
(***************************************************************************)
CanPublish == Len(status_queue) < MaxQueue

StatusUpdate(t) == [type |-> "status_update", task |-> to_dict(t)]

\* a registered callback: its place in the registration order and whether
\* calling it raises an Exception
Callbacks == [id : 1..MaxCallbacks, raises : BOOLEAN]

\* the callbacks in front of the first one that raises, and that one
UpToFirstRaising(callbacks) ==
    LET raising == {i \in DOMAIN callbacks : callbacks[i].raises}
    IN  IF raising = {} THEN callbacks
        ELSE SubSeq(callbacks, 1, CHOOSE i \in raising : \A j \in raising : i <= j)

\* the loop without its try: the first exception leaves the loop
call_callbacks_uncaught(callbacks, invoked) ==
    [invoked |-> invoked \o UpToFirstRaising(callbacks),
     propagated |-> \E i \in DOMAIN callbacks : callbacks[i].raises]

\* the loop over progress_callbacks: each call is inside its own try, an
\* exception is logged and the loop goes on
RECURSIVE call_callbacks(_, _)
call_callbacks(callbacks, invoked) ==
    IF callbacks = <<>> THEN [invoked |-> invoked, propagated |-> FALSE]
    ELSE LET callback == Head(callbacks)
         IN  IF callback.raises
                THEN call_callbacks(Tail(callbacks), Append(invoked, callback))
                ELSE call_callbacks(Tail(callbacks), Append(invoked, callback))

\* announced: the status each task had in the last event published for it
NoCalls == [invoked |-> <<>>, propagated |-> FALSE, announced |-> <<>>]

\* what the call for task t leaves behind
Called(done, t) ==
    [invoked |-> done.invoked, propagated |-> done.propagated,
     announced |-> [id \in DOMAIN calls.announced \cup {t.id} |->
                       IF id = t.id THEN t.status ELSE calls.announced[id]]]

\* the queue, the callbacks and the snapshot after _notify_progress(t) on
\* the store; the save is reached unless an exception left the loop
notify_progress(store, t) ==
    LET done == call_callbacks(progress_callbacks, <<>>)
    IN  /\ status_queue' = Append(status_queue, StatusUpdate(t))
        /\ calls' = Called(done, t)
        /\ IF done.propagated THEN UNCHANGED <<file, torn>>
           ELSE file' = save_tasks(store) /\ torn' = FALSE

\* the task object a thread got from get_task or was handed by the pool
TaskObject(id) == IF id \in DOMAIN tasks THEN tasks[id] ELSE detached[id]

\* an assignment to fields of that object
Assign(id, t2) ==
    IF id \in DOMAIN tasks
       THEN tasks' = [tasks EXCEPT ![id] = t2] /\ UNCHANGED detached
       ELSE detached' = [detached EXCEPT ![id] = t2] /\ UNCHANGED tasks

(***************************************************************************)
(* TaskManager.is_available of the transcription service.                  *)
(***************************************************************************)
is_available == model_loaded /\ ENABLE_TRANSCRIPTION

Init ==
    /\ tasks = <<>>
    /\ nextId = 1
    /\ backlog = <<>>
    /\ running = EmptyBag
    /\ requests = EmptyBag
    /\ status_queue = <<>>
    /\ file = <<>>
    /\ model_loaded \in BOOLEAN
    /\ last = NoResponse
    /\ issued = 0
    /\ detached = <<>>
    /\ torn = FALSE
    /\ progress_callbacks = <<>>
    /\ calls = NoCalls

(***************************************************************************)
(* POST /api/download: start_download.                                     *)
(***************************************************************************)
\* the validation of the request, before any task is touched
Validate(urls, fmt) ==
    IF fmt \notin Formats THEN "Invalid format. Use 'mp3' or 'mp4'"
    ELSE IF urls = <<>> THEN "No valid YouTube URLs found"
    ELSE IF Len(urls) > MAX_URLS_PER_REQUEST THEN "Too many URLs"
    ELSE "ok"

\* the existing_tasks test of the loop, for the URL at the head
existing_tasks(url) ==
    {id \in DOMAIN tasks : tasks[id].url = url /\ tasks[id].status # "FAILED"}

DlAdvance(r, created) ==
    [r EXCEPT !.urls = Tail(@), !.created = created,
              !.pc = IF Tail(r.urls) = <<>> THEN "finish" ELSE "check"]

\* one turn of the loop up to create_task: the URL is skipped or not
DlTest(r) ==
    IF existing_tasks(Head(r.urls)) # {} THEN DlAdvance(r, r.created)
    ELSE [r EXCEPT !.pc = "create"]

\* URLs are opaque: they are named in the order of their first use
SeenUrls ==
    {tasks[id].url : id \in DOMAIN tasks}
        \cup UNION {{r.urls[i] : i \in DOMAIN r.urls} : r \in BagToSet(requests)}

InOrderOfUse(urls) ==
    \A i \in DOMAIN urls :
        urls[i] = "u2" => "u1" \in SeenUrls \cup {urls[j] : j \in 1..(i - 1)}

\* the request arrives, is validated, and the loop tests its first URL
ReqDownload(urls, fmt, quality, tr) ==
    /\ BagCardinality(requests) < MaxInflight
    /\ InOrderOfUse(urls)
    /\ issued < MaxRequests
    /\ issued' = issued + 1
    /\ (nextId - 1) + Reserved + Len(urls) <= MaxTasks
    /\ IF Validate(urls, fmt) # "ok"
          THEN /\ last' = Response("download", 0, FALSE, 400,
                                   Validate(urls, fmt))
               /\ UNCHANGED requests
          ELSE /\ requests' = requests (+)
                      One(DlTest(Thread("download", "check", 0, urls, fmt,
                                        quality, tr)))
               /\ UNCHANGED last
    /\ UNCHANGED <<tasks, detached, nextId, backlog, running, status_queue, file, torn, calls,
                   model_loaded, progress_callbacks>>

\* the later turns of the loop
DlCheck(r) ==
    /\ r.kind = "download" /\ r.pc = "check"
    /\ requests' = Step(requests, r, DlTest(r))
    /\ UNCHANGED <<issued, tasks, detached, nextId, backlog, running, status_queue, file, torn, calls,
                   model_loaded, progress_callbacks, last>>

\* a create_task that marks the new task as started
create_task_started(id, url, fmt, quality, tr) ==
    [DownloadTask(id, url, fmt, quality, nextId)
        EXCEPT !.metadata = [enable_transcription |-> tr],
               !.status = "DOWNLOADING"]

\* TaskManager.create_task
create_task(id, url, fmt, quality, tr) ==
    [DownloadTask(id, url, fmt, quality, nextId)
        EXCEPT !.metadata = [enable_transcription |-> tr]]

DlCreate(r) ==
    /\ r.kind = "download" /\ r.pc = "create"
    /\ CanPublish
    /\ LET t == create_task(nextId, Head(r.urls), r.format, r.quality,
                            r.transcription)
       IN  /\ tasks' = tasks @@ (nextId :> t)
           /\ notify_progress(tasks', t)
           /\ requests' = Step(requests, r,
                               DlAdvance(r, Append(r.created, nextId)))
    /\ nextId' = nextId + 1
    /\ UNCHANGED <<issued, backlog, running, model_loaded, progress_callbacks,
                   last, detached>>

\* TaskManager.get_tasks_by_status(QUEUED), in the order of the dict
queued_tasks == SortedSeq({id \in DOMAIN tasks : tasks[id].status = "QUEUED"})

\* a start_all_queued_tasks that submits nothing
start_all_queued_tasks_none == backlog

\* TaskManager.start_all_queued_tasks: the pool's work queue afterwards
start_all_queued_tasks == backlog \o queued_tasks

\* a response that is "started" also when nothing was created
start_download_response_started(created) ==
    [Response("download", Len(created), TRUE, 200, "started") EXCEPT !.ret = created]

\* the response of start_download; ret: the tasks of created_tasks
start_download_response(created) ==
    IF created = <<>>
       THEN Response("download", 0, FALSE, 400, "All URLs are already in the queue")
       ELSE [Response("download", Len(created), TRUE, 200, "started")
                EXCEPT !.ret = created]

DlFinish(r) ==
    /\ r.kind = "download" /\ r.pc = "finish"
    /\ requests' = requests (-) One(r)
    /\ IF r.created = <<>>
          THEN UNCHANGED backlog
          ELSE /\ PoolLoad + Len(queued_tasks) <= MaxPending
               /\ backlog' = start_all_queued_tasks
    /\ last' = start_download_response(r.created)
    /\ UNCHANGED <<issued, tasks, detached, nextId, running, status_queue, file, torn, calls, model_loaded, progress_callbacks>>

(***************************************************************************)
(* POST /api/tasks/<id>/retry: TaskManager.retry_task.                     *)
(***************************************************************************)
\* retry_task without the status test of line 150
retry_allowed_any(id) == id \in DOMAIN tasks

\* the guard of retry_task: the task exists and is FAILED
retry_allowed(id) == id \in DOMAIN tasks /\ tasks[id].status = "FAILED"

\* the response of the endpoint: retry_task returns None on every path and
\* raises nothing
retry_response(id, accepted) ==
    Response("retry", id, accepted, 200, "retry_started")

ReqRetry(id) ==
    /\ BagCardinality(requests) < MaxInflight
    /\ issued < MaxRequests
    /\ issued' = issued + 1
    /\ IF retry_allowed(id)
          THEN /\ requests' = requests (+)
                      One(Thread("retry", "reset", id, <<>>, "", "", FALSE))
               /\ UNCHANGED last
          ELSE /\ last' = retry_response(id, FALSE)
               /\ UNCHANGED requests
    /\ UNCHANGED <<tasks, detached, nextId, backlog, running, status_queue, file, torn, calls,
                   model_loaded, progress_callbacks>>

\* retry_task without the assignments of lines 159 and 160
retry_reset_partial(t) ==
    [set_status(t, "QUEUED", "", nextId)
        EXCEPT !.progress = 0, !.speed = "", !.eta = ""]

\* the reset of retry_task
retry_reset(t) ==
    [set_status(t, "QUEUED", "", nextId)
        EXCEPT !.progress = 0, !.speed = "", !.eta = "",
               !.error_message = "", !.filename = ""]

\* what retry_task submits to the pool
retry_submit(id) == <<id>>

RetryReset(r) ==
    /\ r.kind = "retry" /\ r.pc = "reset"
    /\ PoolLoad + 1 <= MaxPending
    /\ Assign(r.id, retry_reset(TaskObject(r.id)))
    /\ backlog' = backlog \o retry_submit(r.id)
    /\ requests' = requests (-) One(r)
    /\ last' = retry_response(r.id, TRUE)
    /\ UNCHANGED <<issued, nextId, running, status_queue, file, torn, calls, model_loaded, progress_callbacks>>

(***************************************************************************)
(* POST /api/tasks/<id>/cancel: TaskManager.cancel_task.                   *)
(***************************************************************************)
cancel_allowed(id) == id \in DOMAIN tasks /\ tasks[id].status = "QUEUED"

cancel_response(id, accepted) ==
    Response("cancel", id, accepted, 200, "cancelled")

ReqCancel(id) ==
    /\ BagCardinality(requests) < MaxInflight
    /\ issued < MaxRequests
    /\ issued' = issued + 1
    /\ IF cancel_allowed(id)
          THEN /\ requests' = requests (+)
                      One(Thread("cancel", "set", id, <<>>, "", "", FALSE))
               /\ UNCHANGED last
          ELSE /\ last' = cancel_response(id, FALSE)
               /\ UNCHANGED requests
    /\ UNCHANGED <<tasks, detached, nextId, backlog, running, status_queue, file, torn, calls,
                   model_loaded, progress_callbacks>>

CancelSet(r) ==
    /\ r.kind = "cancel" /\ r.pc = "set"
    /\ CanPublish
    /\ LET t2 == set_status(TaskObject(r.id), "FAILED", CancelMessage, nextId)
       IN  Assign(r.id, t2) /\ notify_progress(tasks', t2)
    /\ requests' = requests (-) One(r)
    /\ last' = cancel_response(r.id, TRUE)
    /\ UNCHANGED <<issued, nextId, backlog, running, model_loaded, progress_callbacks>>

(***************************************************************************)
(* GET /api/progress: TaskManager.get_status_updates.                      *)
(***************************************************************************)
GetProgress ==
    /\ status_queue # <<>>
    /\ status_queue' = <<>>
    /\ last' = Response("progress", Len(status_queue), TRUE, 200, "updates")
    /\ UNCHANGED <<issued, tasks, detached, nextId, backlog, running, requests, file, torn, calls,
                   model_loaded, progress_callbacks>>

(***************************************************************************)
(* DownloadService.download, as _process_task calls it.                    *)
(***************************************************************************)
Title == "Some title"
FinalName(t) == IF t.format_type = "mp3" THEN "title.mp3" ELSE "title.mp4"

\* the task changes to t2, which is published
Mutate(e, t2) ==
    /\ CanPublish
    /\ Assign(e.task, t2)
    /\ notify_progress(tasks', t2)

Goto(e, pc) == running' = Step(running, e, [e EXCEPT !.pc = pc])

\* a handler that stores the download's own result, True or False
error_text_result(msg) == "False"

\* the outer except of download: a message that mentions ffmpeg is replaced;
\* the task fails, download returns False and _process_task returns
error_text(msg) ==
    IF msg = "ffprobe and ffmpeg not found" THEN FfmpegHelp ELSE msg

download_failed(e, msg) ==
    /\ Mutate(e, set_status(TaskObject(e.task), "FAILED", error_text(msg), nextId))
    /\ running' = running (-) One(e)

\* A free worker of the pool runs a submission: _process_task calls
\* download, which calls set_status(DOWNLOADING) and notifies.  The
\* submissions that free workers have taken are the first of the backlog.
\* a pool that starts a thread for every submission
FreeWorkers_unbounded == Len(backlog)

FreeWorkers == MAX_CONCURRENT_DOWNLOADS - BagCardinality(running)

RemoveAt(s, i) == SubSeq(s, 1, i - 1) \o SubSeq(s, i + 1, Len(s))

ProcStart(i) ==
    /\ i \in 1..Len(backlog) /\ i <= FreeWorkers
    /\ Mutate(Execution(backlog[i]),
              set_status(TaskObject(backlog[i]), "DOWNLOADING", "", nextId))
    /\ running' = running (+) One(Execution(backlog[i]))
    /\ backlog' = RemoveAt(backlog, i)
    /\ UNCHANGED <<issued, nextId, requests, model_loaded, progress_callbacks, last>>

\* extract_info(download=False) and set_metadata(title)
ProcInfo(e) ==
    /\ e.pc = "info"
    /\ \/ /\ Mutate(e, set_metadata(TaskObject(e.task), Title, ""))
          /\ Goto(e, "dl")
       \/ \E msg \in ErrTexts : download_failed(e, msg)
    /\ UNCHANGED <<issued, nextId, backlog, requests, model_loaded, progress_callbacks, last>>

\* progress_hook, status "downloading"
hook_downloading(t, percent) ==
    set_status(update_progress(t, percent, "1MiB/s", "00:05"),
               "DOWNLOADING", "", nextId)

ProcHookDownloading(e, percent) ==
    /\ e.pc = "dl"
    /\ Mutate(e, hook_downloading(TaskObject(e.task), percent))
    /\ UNCHANGED <<issued, nextId, backlog, running, requests, model_loaded, progress_callbacks, last>>

\* progress_hook, an exception inside it (speed or eta is not a string)
ProcHookError(e) ==
    /\ e.pc = "dl"
    /\ Mutate(e, set_status(TaskObject(e.task), "FAILED", HookErrText, nextId))
    /\ UNCHANGED <<issued, nextId, backlog, running, requests, model_loaded, progress_callbacks, last>>

\* progress_hook, status "finished": the file's extension is not the
\* format's, so a post-processor will run
ProcHookFinished(e) ==
    /\ e.pc = "dl"
    /\ Mutate(e, set_status(TaskObject(e.task), "CONVERTING", "", nextId))
    /\ Goto(e, "pp")
    /\ UNCHANGED <<issued, nextId, backlog, requests, model_loaded, progress_callbacks, last>>

\* the same without set_metadata(filename=...)
download_found_unnamed(t) == set_status(t, "COMPLETED", "", nextId)

\* the first two statements once the output file is found:
\* set_metadata(filename=...) and set_status(COMPLETED)
download_found(t) ==
    set_status(set_metadata(t, "", FinalName(t)), "COMPLETED", "", nextId)

\* extract_info(download=True) returns or raises; the output file is looked
\* for, also under another name
ProcDownloaded(e) ==
    /\ e.pc \in {"dl", "pp"}
    /\ \/ /\ Assign(e.task, download_found(TaskObject(e.task)))
          /\ Goto(e, "c2")
          /\ UNCHANGED <<status_queue, file, torn, calls>>
       \/ \E msg \in ErrTexts \cup {NotFoundMessage} : download_failed(e, msg)
    /\ UNCHANGED <<issued, nextId, backlog, requests, model_loaded, progress_callbacks, last>>

\* the condition without the test of is_available
wants_transcription_enabled(t) == t.metadata.enable_transcription

\* the condition of _process_task's transcription phase
wants_transcription(t) == t.metadata.enable_transcription /\ is_available

\* task.update_progress(100.0), the notification, return True
ProcSetProgress(e) ==
    /\ e.pc = "c2"
    /\ Mutate(e, update_progress(TaskObject(e.task), 100, "", ""))
    /\ Goto(e, IF wants_transcription(TaskObject(e.task)) THEN "tr0" ELSE "final")
    /\ UNCHANGED <<issued, nextId, backlog, requests, model_loaded, progress_callbacks, last>>

(***************************************************************************)
(* TranscriptionService.transcribe_task and transcribe_file.               *)
(***************************************************************************)
ready_for_transcription(t) == t.filename # "" /\ t.status = "COMPLETED"

\* transcribe_task's test, transcribe_file's tests, set_status(TRANSCRIBING)
ProcTranscribeBegin(e) ==
    /\ e.pc = "tr0"
    /\ \/ /\ ~ready_for_transcription(TaskObject(e.task))
          /\ running' = Step(running, e, [e EXCEPT !.pc = "final",
                                                   !.tx = "False"])
          /\ UNCHANGED <<tasks, detached, status_queue, file, torn, calls>>
       \/ /\ ready_for_transcription(TaskObject(e.task))
          /\ \/ /\ running' = Step(running, e, [e EXCEPT !.pc = "final",
                                                         !.tx = "False"])
                /\ UNCHANGED <<tasks, detached, status_queue, file, torn, calls>>
             \/ /\ Mutate(e, set_status(TaskObject(e.task), "TRANSCRIBING", "",
                                        nextId))
                /\ Goto(e, "tr1")
    /\ UNCHANGED <<issued, nextId, backlog, requests, model_loaded, progress_callbacks, last>>

\* what transcribe_file returns once the status is TRANSCRIBING: None after
\* an exception or a failed audio extraction, or the stripped text
Transcripts == {None, ""} \cup Texts

ProcTranscribe(e, text) ==
    /\ e.pc = "tr1"
    /\ IF text # None /\ text # ""
          THEN /\ Mutate(e, [TaskObject(e.task) EXCEPT !.transcription = text])
               /\ running' = Step(running, e, [e EXCEPT !.pc = "final",
                                                        !.tx = "True"])
          ELSE /\ running' = Step(running, e, [e EXCEPT !.pc = "final",
                                                        !.tx = "False"])
               /\ UNCHANGED <<tasks, detached, status_queue, file, torn, calls>>
    /\ UNCHANGED <<issued, nextId, backlog, requests, model_loaded, progress_callbacks, last>>

\* the final notification of _process_task
ProcFinal(e) ==
    /\ e.pc = "final"
    /\ CanPublish
    /\ notify_progress(tasks, TaskObject(e.task))
    /\ running' = running (-) One(e)
    /\ UNCHANGED <<issued, tasks, detached, nextId, backlog, requests, model_loaded, progress_callbacks, last>>

Next ==
    \/ \E urls \in Batches, fmt \in FormatInputs, quality \in Qualities,
          tr \in BOOLEAN : ReqDownload(urls, fmt, quality, tr)
    \/ \E r \in BagToSet(requests) : DlCheck(r)
    \/ \E r \in BagToSet(requests) : DlCreate(r)
    \/ \E r \in BagToSet(requests) : DlFinish(r)
    \/ \E id \in Ids : ReqRetry(id)
    \/ \E r \in BagToSet(requests) : RetryReset(r)
    \/ \E id \in Ids : ReqCancel(id)
    \/ \E r \in BagToSet(requests) : CancelSet(r)
    \/ GetProgress
    \/ \E i \in 1..MaxPending : ProcStart(i)
    \/ \E e \in BagToSet(running) : ProcInfo(e)
    \/ \E e \in BagToSet(running), percent \in Percents :
          ProcHookDownloading(e, percent)
    \/ \E e \in BagToSet(running) : ProcHookFinished(e)
    \/ \E e \in BagToSet(running) : ProcDownloaded(e)
    \/ \E e \in BagToSet(running) : ProcSetProgress(e)
    \/ \E e \in BagToSet(running) : ProcTranscribeBegin(e)
    \/ \E e \in BagToSet(running), text \in Transcripts :
          ProcTranscribe(e, text)
    \/ \E e \in BagToSet(running) : ProcFinal(e)

Spec == Init /\ [][Next]_vars

\* The same system when the progress hook can raise.
NextHook == Next \/ \E e \in BagToSet(running) : ProcHookError(e)

SpecHook == Init /\ [][NextHook]_vars

(***************************************************************************)
(* The parts of the system, and the store after one download request.      *)
(***************************************************************************)
DownloadSteps ==
    \/ \E urls \in Batches, fmt \in FormatInputs, quality \in Qualities,
          tr \in BOOLEAN : ReqDownload(urls, fmt, quality, tr)
    \/ \E r \in BagToSet(requests) : DlCheck(r)
    \/ \E r \in BagToSet(requests) : DlCreate(r)
    \/ \E r \in BagToSet(requests) : DlFinish(r)

WorkerSteps ==
    \/ \E i \in 1..MaxPending : ProcStart(i)
    \/ \E e \in BagToSet(running) : ProcInfo(e)
    \/ \E e \in BagToSet(running), percent \in Percents :
          ProcHookDownloading(e, percent)
    \/ \E e \in BagToSet(running) : ProcHookFinished(e)
    \/ \E e \in BagToSet(running) : ProcDownloaded(e)
    \/ \E e \in BagToSet(running) : ProcSetProgress(e)
    \/ \E e \in BagToSet(running) : ProcTranscribeBegin(e)
    \/ \E e \in BagToSet(running), text \in Transcripts :
          ProcTranscribe(e, text)

\* the tasks one POST /api/download creates for n fresh URLs
RequestedTasks(n, tr) ==
    [id \in 1..n |->
        [DownloadTask(id, IF id = 1 THEN "u1" ELSE "u2", "mp3", "medium", id)
            EXCEPT !.metadata = [enable_transcription |-> tr]]]

\* One download request for n URLs has been answered: its tasks are in the
\* store and submitted once, its events have been polled.  counted: the
\* requests that count against MaxRequests so far.
Submitted(counted) ==
    /\ \E n \in 1..MaxBatch, tr \in BOOLEAN :
          /\ tasks = RequestedTasks(n, tr)
          /\ nextId = n + 1
          /\ backlog = SortedSeq(1..n)
          /\ last = start_download_response(SortedSeq(1..n))
    /\ file = save_tasks(tasks)
    /\ running = EmptyBag
    /\ requests = EmptyBag
    /\ status_queue = <<>>
    /\ model_loaded \in BOOLEAN
    /\ issued = counted
    /\ detached = <<>>
    /\ torn = FALSE
    /\ progress_callbacks = <<>>
    /\ calls = [NoCalls EXCEPT !.announced = [id \in DOMAIN tasks |-> "QUEUED"]]

InitRun == Submitted(1)

(***************************************************************************)
(* POST /api/clear: TaskManager.clear_completed_tasks.                     *)
(***************************************************************************)
\* a scan that also collects the failed tasks
completed_or_failed_tasks(store) ==
    SortedSeq({id \in DOMAIN store :
                  store[id].status \in {"COMPLETED", "FAILED"}})

\* the list comprehension under the lock
completed_tasks(store) ==
    SortedSeq({id \in DOMAIN store : store[id].status = "COMPLETED"})

Range(s) == {s[i] : i \in DOMAIN s}

\* a thread, a submission or an execution still holds the task object
Referenced(id) ==
    \/ id \in Range(backlog)
    \/ \E e \in BagToSet(running) : e.task = id
    \/ \E r \in BagToSet(requests) : r.id = id

\* the store and the detached objects after del self.tasks[id] for ids
Delete(ids) ==
    /\ tasks' = [id \in DOMAIN tasks \ ids |-> tasks[id]]
    /\ detached' = detached @@
          [id \in {i \in ids \cap DOMAIN tasks : Referenced(i)} |-> tasks[id]]

\* seen: the statuses the scan read
ClearThread(completed, seen) ==
    [kind |-> "clear", pc |-> "delete", id |-> 0, urls |-> <<>>,
     created |-> completed, seen |-> seen]

\* self._lock is held by a clear_completed_tasks between its scan and its
\* deletions, by a get_statistics during its pass, and by a thread inside
\* a with block
LockHeld ==
    \E r \in BagToSet(requests) :
        r.kind \in {"clear", "stats"} \/ (r.kind = "call" /\ r.holds)

\* the request arrives, takes the lock and collects completed_tasks
ReqClear ==
    /\ BagCardinality(requests) < MaxInflight
    /\ ~LockHeld
    /\ issued < MaxRequests
    /\ issued' = issued + 1
    /\ requests' = requests (+)
          One(ClearThread(completed_tasks(tasks),
                          [id \in DOMAIN tasks |-> tasks[id].status]))
    /\ UNCHANGED <<tasks, detached, nextId, backlog, running, status_queue,
                   file, torn, calls, model_loaded, progress_callbacks, last>>

\* the deletions, the save when something was deleted, the response
ClearDelete(r) ==
    /\ r.kind = "clear" /\ r.pc = "delete"
    /\ Delete(Range(r.created))
    /\ IF r.created # <<>>
          THEN file' = save_tasks(tasks') /\ torn' = FALSE
          ELSE UNCHANGED <<file, torn>>
    /\ requests' = requests (-) One(r)
    /\ last' = Response("clear", Len(r.created), TRUE, 200, "cleared")
    /\ UNCHANGED <<issued, nextId, backlog, running, status_queue, calls,
                   model_loaded, progress_callbacks>>

NextClear ==
    \/ WorkerSteps
    \/ \E e \in BagToSet(running) : ProcFinal(e)
    \/ GetProgress
    \/ ReqClear
    \/ \E r \in BagToSet(requests) : ClearDelete(r)

SpecClear == InitRun /\ [][NextClear]_vars

(***************************************************************************)
(* The failure paths of a worker, with retry and cancel.                   *)
(***************************************************************************)
\* str(e) of an exception raised without arguments, such as a bare assert
BareErrText == ""

\* download's outer except when str(e) is empty
ProcRaisedBare(e) ==
    /\ e.pc \in {"info", "dl", "pp"}
    /\ download_failed(e, BareErrText)
    /\ UNCHANGED <<issued, nextId, backlog, requests, model_loaded,
                   progress_callbacks, last>>

NextFail ==
    \/ WorkerSteps
    \/ \E e \in BagToSet(running) : ProcFinal(e)
    \/ \E e \in BagToSet(running) : ProcHookError(e)
    \/ \E e \in BagToSet(running) : ProcRaisedBare(e)
    \/ GetProgress
    \/ \E id \in Ids : ReqRetry(id)
    \/ \E r \in BagToSet(requests) : RetryReset(r)
    \/ \E id \in Ids : ReqCancel(id)
    \/ \E r \in BagToSet(requests) : CancelSet(r)

SpecFail == InitRun /\ [][NextFail]_vars

(***************************************************************************)
(* TaskPersistence.save_tasks statement by statement, for the save of the  *)
(* final notification; the other saves run without interleaving.           *)
(***************************************************************************)
\* the final notification up to the point where save_tasks has built
\* task_data from the store
SvFinalPut(e) ==
    /\ e.pc = "final"
    /\ CanPublish
    /\ status_queue' = Append(status_queue, StatusUpdate(TaskObject(e.task)))
    /\ calls' = Called(call_callbacks(progress_callbacks, <<>>), TaskObject(e.task))
    /\ running' = Step(running, e, [e EXCEPT !.pc = "open",
                                             !.data = save_tasks(tasks)])
    /\ UNCHANGED <<issued, tasks, detached, nextId, backlog, requests, file,
                   torn, model_loaded, progress_callbacks, last>>

\* open(storage_file, 'w') truncates the file
SvOpen(e) ==
    /\ e.pc = "open"
    /\ file' = <<>> /\ torn' = TRUE
    /\ running' = Step(running, e, [e EXCEPT !.pc = "dump"])
    /\ UNCHANGED <<issued, tasks, detached, nextId, backlog, requests,
                   status_queue, calls, model_loaded, progress_callbacks,
                   last>>

\* the file holds no byte
ZeroBytes == torn /\ file = <<>>

\* json.dump writes task_data from offset 0 and the file is closed.  Over
\* bytes another writer has put there since the truncation, a shorter
\* serialization leaves the tail of the other one behind.
SvDump(e) ==
    /\ e.pc = "dump"
    /\ file' = e.data
    /\ \/ torn' = FALSE
       \/ ~ZeroBytes /\ torn' = TRUE
    /\ running' = running (-) One(e)
    /\ UNCHANGED <<issued, tasks, detached, nextId, backlog, requests,
                   status_queue, calls, model_loaded, progress_callbacks,
                   last>>

NextSave ==
    \/ WorkerSteps
    \/ GetProgress
    \/ \E e \in BagToSet(running) : SvFinalPut(e)
    \/ \E e \in BagToSet(running) : SvOpen(e)
    \/ \E e \in BagToSet(running) : SvDump(e)

SpecSave == InitRun /\ [][NextSave]_vars

(***************************************************************************)
(* Start of the process on an existing tasks.json: TaskManager.__init__.   *)
(***************************************************************************)
\* tasks as the program leaves them in the store
StoredKinds == {"QUEUED", "DOWNLOADING", "COMPLETED", "FAILED"}

StoredTask(id, kind) ==
    LET t == DownloadTask(id, IF id = 1 THEN "u1" ELSE "u2", "mp3", "medium",
                          id)
    IN  CASE kind = "QUEUED" -> t
          [] kind = "DOWNLOADING" ->
                set_status(update_progress(t, 50, "1MiB/s", "00:05"),
                           "DOWNLOADING", "", id)
          [] kind = "COMPLETED" ->
                update_progress(
                    set_status(set_metadata(t, Title, FinalName(t)),
                               "COMPLETED", "", id + 1), 100, "", "")
          [] kind = "FAILED" ->
                set_status(t, "FAILED", "ERROR: Video unavailable", id)

\* an entry of tasks.json, as written or with a damaged created_at
StoredEntry(id, kind, damaged) ==
    [to_dict(StoredTask(id, kind))
        EXCEPT !.created_at = IF damaged THEN <<"not a timestamp", id>> ELSE @]

Snapshots ==
    UNION {[S -> StoredKinds \X BOOLEAN] : S \in SUBSET Ids}

\* the process is not running; tasks.json holds a snapshot
InitLoad ==
    /\ \E choice \in Snapshots :
          file = [id \in DOMAIN choice |->
                     StoredEntry(id, choice[id][1], choice[id][2])]
    /\ torn = FALSE
    /\ tasks = <<>>
    /\ nextId = MaxTasks + 1
    /\ backlog = <<>>
    /\ running = EmptyBag
    /\ requests = EmptyBag
    /\ status_queue = <<>>
    /\ model_loaded \in BOOLEAN
    /\ last = NoResponse
    /\ issued = 0
    /\ detached = <<>>
    /\ progress_callbacks = <<>>
    /\ calls = NoCalls

\* what load_tasks returns: {} when the file cannot be parsed as a whole
loaded_tasks == IF torn THEN <<>> ELSE load_tasks(file)

\* TaskManager.__init__: self.tasks.update(saved_tasks), and the log line
\* "TaskManager initialized with N existing tasks"
Startup ==
    /\ last.op = "none"
    /\ tasks' = loaded_tasks
    /\ last' = Response("startup", Cardinality(DOMAIN loaded_tasks), TRUE, 0,
                        "initialized")
    /\ UNCHANGED <<nextId, backlog, running, requests, status_queue, file,
                   torn, model_loaded, issued, detached, progress_callbacks,
                   calls>>

SpecLoad == InitLoad /\ [][Startup]_vars

(***************************************************************************)
(* TaskPersistence.cleanup_old_tasks on a store of tasks of several ages.  *)
(* Times are in hours.                                                     *)
(***************************************************************************)
CreatedHours == {0, 40}
NowHours == {48, 100}
MaxAgeHours == {24, 72}

AgedTask(id, kind, created) == [StoredTask(id, kind) EXCEPT !.created_at = created]

AgedStores ==
    UNION {[S -> StoredKinds \X CreatedHours] : S \in SUBSET Ids}

InitCleanup ==
    /\ \E choice \in AgedStores :
          tasks = [id \in DOMAIN choice |->
                      AgedTask(id, choice[id][1], choice[id][2])]
    /\ file = save_tasks(tasks)
    /\ torn = FALSE
    /\ nextId = MaxTasks + 1
    /\ backlog = <<>>
    /\ running = EmptyBag
    /\ requests = EmptyBag
    /\ status_queue = <<>>
    /\ model_loaded \in BOOLEAN
    /\ last = NoResponse
    /\ issued = 0
    /\ detached = <<>>
    /\ progress_callbacks = <<>>
    /\ calls = NoCalls

\* the first loop: status.value is compared with 'completed'
tasks_to_remove(store, max_age_hours, now) ==
    {id \in DOMAIN store :
        /\ StatusValue(store[id].status) = "completed"
        /\ store[id].created_at # NoTime
        /\ now - store[id].created_at > max_age_hours}

\* the dict after the second loop
cleanup_old_tasks(store, max_age_hours, now) ==
    [id \in DOMAIN store \ tasks_to_remove(store, max_age_hours, now) |-> store[id]]

\* one call on the store; the snapshot is written when something was removed
Cleanup(max_age_hours, now) ==
    /\ last.op = "none"
    /\ tasks' = cleanup_old_tasks(tasks, max_age_hours, now)
    /\ IF tasks_to_remove(tasks, max_age_hours, now) # {}
          THEN file' = save_tasks(tasks')
          ELSE UNCHANGED file
    /\ last' = [Response("cleanup", 0, TRUE, 0, "returned")
                  EXCEPT !.ret = [now |-> now, max_age_hours |-> max_age_hours]]
    /\ UNCHANGED <<nextId, backlog, running, requests, status_queue, torn,
                   model_loaded, issued, detached, progress_callbacks, calls>>

NextCleanup == \E max_age_hours \in MaxAgeHours, now \in NowHours : Cleanup(max_age_hours, now)

SpecCleanup == InitCleanup /\ [][NextCleanup]_vars

(***************************************************************************)
(* DELETE /api/tasks/<id>/remove: TaskManager.remove_task.                 *)
(***************************************************************************)
\* under the lock: the entry is deleted and the snapshot rewritten, or
\* nothing happens for an absent id; the endpoint answers "removed"
ReqRemove(id) ==
    /\ BagCardinality(requests) < MaxInflight
    /\ ~LockHeld
    /\ issued < MaxRequests
    /\ issued' = issued + 1
    /\ IF id \in DOMAIN tasks
          THEN /\ Delete({id})
               /\ file' = save_tasks(tasks') /\ torn' = FALSE
          ELSE UNCHANGED <<tasks, detached, file, torn>>
    /\ last' = Response("remove", id, id \in DOMAIN tasks, 200, "removed")
    /\ UNCHANGED <<nextId, backlog, running, requests, status_queue, calls,
                   model_loaded, progress_callbacks>>

\* workers, removals, and download requests of one URL
NextRemove ==
    \/ WorkerSteps
    \/ \E e \in BagToSet(running) : ProcFinal(e)
    \/ GetProgress
    \/ \E id \in Ids : ReqRemove(id)
    \/ \E urls \in Batches, fmt \in FormatInputs, quality \in Qualities,
          tr \in BOOLEAN : ReqDownload(urls, fmt, quality, tr)
    \/ \E r \in BagToSet(requests) : DlCreate(r)
    \/ \E r \in BagToSet(requests) : DlFinish(r)

InitRemove == Submitted(0)

SpecRemove == InitRemove /\ [][NextRemove]_vars

(***************************************************************************)
(* TaskManager._process_task of the submitted tasks, nothing else asked.   *)
(***************************************************************************)
NextRun ==
    \/ WorkerSteps
    \/ \E e \in BagToSet(running) : ProcFinal(e)
    \/ GetProgress

SpecRun == InitRun /\ [][NextRun]_vars

(***************************************************************************)
(* GET /api/statistics: TaskManager.get_statistics, task by task, while    *)
(* the workers change statuses.                                            *)
(***************************************************************************)
\* a chain that counts finished tasks only
count_status_finished(stats, status) ==
    IF status \in {"COMPLETED", "FAILED"}
       THEN [stats EXCEPT !.counts[status] = @ + 1]
       ELSE stats

\* the if/elif chain of the loop
count_status(stats, status) ==
    IF status \in DownloadStatus
       THEN [stats EXCEPT !.counts[status] = @ + 1]
       ELSE stats

\* todo: the values the loop has not reached; seen: the statuses it read
StatsThread(stats, todo, seen) ==
    [kind |-> "stats", pc |-> "pass", id |-> 0, urls |-> <<>>, created |-> <<>>,
     stats |-> stats, todo |-> todo, seen |-> seen]

\* the request takes the lock and builds stats with total = len(self.tasks)
ReqStats ==
    /\ BagCardinality(requests) < MaxInflight
    /\ ~LockHeld
    /\ requests' = requests (+)
          One(StatsThread([total |-> Cardinality(DOMAIN tasks),
                           counts |-> [st \in DownloadStatus |-> 0]],
                          SortedSeq(DOMAIN tasks), <<>>))
    /\ UNCHANGED <<issued, tasks, detached, nextId, backlog, running, status_queue,
                   file, torn, calls, model_loaded, progress_callbacks, last>>

\* one turn of the loop over self.tasks.values()
StatsVisit(r) ==
    /\ r.kind = "stats" /\ r.todo # <<>>
    /\ LET id == Head(r.todo)
           status == tasks[id].status
       IN  requests' = Step(requests, r,
              [r EXCEPT !.stats = count_status(@, status),
                        !.todo = Tail(@),
                        !.seen = @ @@ (id :> status)])
    /\ UNCHANGED <<issued, tasks, detached, nextId, backlog, running, status_queue,
                   file, torn, calls, model_loaded, progress_callbacks, last>>

\* return stats; the lock is released and the endpoint answers
StatsReturn(r) ==
    /\ r.kind = "stats" /\ r.todo = <<>>
    /\ requests' = requests (-) One(r)
    /\ last' = [Response("statistics", 0, TRUE, 200, "statistics") EXCEPT !.ret = r.stats]
    /\ UNCHANGED <<issued, tasks, detached, nextId, backlog, running, status_queue,
                   file, torn, calls, model_loaded, progress_callbacks>>

NextStats ==
    \/ NextRun
    \/ \E id \in Ids : ReqRemove(id)
    \/ ReqStats
    \/ \E r \in BagToSet(requests) : StatsVisit(r)
    \/ \E r \in BagToSet(requests) : StatsReturn(r)

SpecStats == InitRun /\ [][NextStats]_vars

(***************************************************************************)
(* _process_task's own except: an exception leaves the statements that     *)
(* follow the download.                                                    *)
(***************************************************************************)
RaisedTexts == ErrTexts \cup {BareErrText}

\* an exception is raised after download has returned True
ProcRaise(e, msg) ==
    /\ e.pc \in {"tr0", "tr1", "final"}
    /\ running' = Step(running, e, [e EXCEPT !.pc = "except", !.exc = msg])
    /\ UNCHANGED <<issued, tasks, detached, nextId, backlog, requests, status_queue,
                   file, torn, calls, model_loaded, progress_callbacks, last>>

\* the handler with the replacement that download's handler makes
process_task_except_hint(t, msg) == set_status(t, "FAILED", error_text(msg), nextId)

\* task.set_status(DownloadStatus.FAILED, str(e))
process_task_except(t, msg) == set_status(t, "FAILED", msg, nextId)

\* except Exception: set_status, the notification, the worker is free again
ProcExcept(e) ==
    /\ e.pc = "except"
    /\ Mutate(e, process_task_except(TaskObject(e.task), e.exc))
    /\ running' = running (-) One(e)
    /\ UNCHANGED <<issued, nextId, backlog, requests, model_loaded,
                   progress_callbacks, last>>

NextCrash ==
    \/ NextRun
    \/ \E e \in BagToSet(running), msg \in RaisedTexts : ProcRaise(e, msg)
    \/ \E e \in BagToSet(running) : ProcExcept(e)

SpecCrash == InitRun /\ [][NextCrash]_vars

(***************************************************************************)
(* Notifications whose save fails: open() raises, or json.dump raises      *)
(* after the file has been truncated.                                      *)
(***************************************************************************)
SaveFailures == {"open", "dump"}

DiskErrText == "[Errno 28] No space left on device"

\* the file after the failed save
save_failed(outcome) ==
    IF outcome = "open" THEN UNCHANGED <<file, torn>>
    ELSE file' = <<>> /\ torn' = TRUE

\* a save whose exception nobody catches
try_save_uncaught(outcome) == [raised |-> TRUE]

\* what leaves _save_tasks: save_tasks logs the exception in its own except,
\* and _save_tasks has a second one around the call
try_save(outcome) == [raised |-> FALSE]

\* _notify_progress(t2) on the task id with the save failing; an exception
\* that left it would reach the except of the caller, which sets FAILED
UnsavedNotify(id, t2, outcome) ==
    /\ CanPublish
    /\ status_queue' = Append(status_queue, StatusUpdate(t2))
    /\ calls' = Called(call_callbacks(progress_callbacks, <<>>), t2)
    /\ save_failed(outcome)
    /\ Assign(id, IF try_save(outcome).raised
                     THEN set_status(t2, "FAILED", DiskErrText, nextId)
                     ELSE t2)

\* ProcStart with a failing save
ProcStartUnsaved(i, outcome) ==
    /\ i \in 1..Len(backlog) /\ i <= FreeWorkers
    /\ UnsavedNotify(backlog[i],
                     set_status(TaskObject(backlog[i]), "DOWNLOADING", "", nextId),
                     outcome)
    /\ running' = IF try_save(outcome).raised THEN running
                  ELSE running (+) One(Execution(backlog[i]))
    /\ backlog' = RemoveAt(backlog, i)
    /\ UNCHANGED <<issued, nextId, requests, model_loaded, progress_callbacks, last>>

\* ProcFinal with a failing save
ProcFinalUnsaved(e, outcome) ==
    /\ e.pc = "final"
    /\ UnsavedNotify(e.task, TaskObject(e.task), outcome)
    /\ running' = running (-) One(e)
    /\ UNCHANGED <<issued, nextId, backlog, requests, model_loaded,
                   progress_callbacks, last>>

NextDisk ==
    \/ NextRun
    \/ \E i \in 1..MaxPending, outcome \in SaveFailures : ProcStartUnsaved(i, outcome)
    \/ \E e \in BagToSet(running), outcome \in SaveFailures : ProcFinalUnsaved(e, outcome)

SpecDisk == InitRun /\ [][NextDisk]_vars

(***************************************************************************)
(* Download requests and the pool, with fair scheduling: a thread that can *)
(* take a step again and again takes one, yt-dlp and Whisper return, and   *)
(* the events are polled.                                                  *)
(***************************************************************************)
\* the steps that bring a worker nearer to the end of _process_task
Progressing ==
    \/ \E i \in 1..MaxPending : ProcStart(i)
    \/ \E e \in BagToSet(running) : ProcInfo(e)
    \/ \E e \in BagToSet(running) : ProcHookFinished(e)
    \/ \E e \in BagToSet(running) : ProcDownloaded(e)
    \/ \E e \in BagToSet(running) : ProcSetProgress(e)
    \/ \E e \in BagToSet(running) : ProcTranscribeBegin(e)
    \/ \E e \in BagToSet(running), text \in Transcripts : ProcTranscribe(e, text)
    \/ \E e \in BagToSet(running) : ProcFinal(e)

\* the steps of a request thread inside start_download
Handling ==
    \/ \E r \in BagToSet(requests) : DlCheck(r)
    \/ \E r \in BagToSet(requests) : DlCreate(r)
    \/ \E r \in BagToSet(requests) : DlFinish(r)

\* the first request was answered: its tasks are submitted, or it named no
\* URL, was rejected and left the store empty
InitQueue ==
    \/ InitRun
    \/ /\ tasks = <<>>
       /\ nextId = 1
       /\ backlog = <<>>
       /\ running = EmptyBag
       /\ requests = EmptyBag
       /\ status_queue = <<>>
       /\ file = <<>>
       /\ model_loaded \in BOOLEAN
       /\ last = Response("download", 0, FALSE, 400, Validate(<<>>, "mp3"))
       /\ issued = 1
       /\ detached = <<>>
       /\ torn = FALSE
       /\ progress_callbacks = <<>>
       /\ calls = NoCalls

\* after the first request, one more
NextQueue ==
    \/ \E urls \in Batches, fmt \in FormatInputs, quality \in Qualities,
          tr \in BOOLEAN : ReqDownload(urls, fmt, quality, tr)
    \/ Handling
    \/ NextRun

SpecQueue ==
    /\ InitQueue /\ [][NextQueue]_vars
    /\ SF_vars(Progressing) /\ SF_vars(Handling) /\ WF_vars(GetProgress)

(***************************************************************************)
(* TaskManager.add_progress_callback, while the workers publish.           *)
(***************************************************************************)
AddCallback(callback) ==
    /\ Len(progress_callbacks) < MaxCallbacks
    /\ callback.id = Len(progress_callbacks) + 1
    /\ progress_callbacks' = Append(progress_callbacks, callback)
    /\ UNCHANGED <<issued, tasks, detached, nextId, backlog, running, requests, status_queue,
                   file, torn, calls, model_loaded, last>>

NextNotify ==
    \/ WorkerSteps
    \/ \E e \in BagToSet(running) : ProcFinal(e)
    \/ GetProgress
    \/ \E callback \in Callbacks : AddCallback(callback)

SpecNotify == InitRun /\ [][NextNotify]_vars

(***************************************************************************)
(* GET /api/progress: TaskManager.get_status_updates, item by item, with   *)
(* several callers and the workers publishing.                             *)
(***************************************************************************)
\* a get that leaves the item in the queue
get_nowait_peek(q) == [item |-> Head(q), rest |-> q]

\* Queue.get_nowait on a queue that is not empty
get_nowait(q) == [item |-> Head(q), rest |-> Tail(q)]

\* updates: the list the call has built so far
PollThread(pc, updates) ==
    [kind |-> "progress", pc |-> pc, id |-> 0, urls |-> <<>>,
     created |-> <<>>, updates |-> updates]

PollResponse(updates) ==
    [Response("progress", Len(updates), TRUE, 200, "updates") EXCEPT !.ret = updates]

\* the request arrives: updates = []
PollBegin ==
    /\ BagCardinality(requests) < MaxInflight
    /\ requests' = requests (+) One(PollThread("test", <<>>))
    /\ UNCHANGED <<issued, tasks, detached, nextId, backlog, running, status_queue,
                   file, torn, calls, model_loaded, progress_callbacks, last>>

\* while not self.status_queue.empty(); the call returns when it is empty
PollTest(r) ==
    /\ r.kind = "progress" /\ r.pc = "test"
    /\ IF status_queue # <<>>
          THEN requests' = Step(requests, r, [r EXCEPT !.pc = "get"]) /\ UNCHANGED last
          ELSE requests' = requests (-) One(r) /\ last' = PollResponse(r.updates)
    /\ UNCHANGED <<issued, tasks, detached, nextId, backlog, running, status_queue,
                   file, torn, calls, model_loaded, progress_callbacks>>

\* updates.append(self.status_queue.get_nowait()); queue.Empty breaks the
\* loop and the call returns
PollGet(r) ==
    /\ r.kind = "progress" /\ r.pc = "get"
    /\ IF status_queue # <<>>
          THEN LET got == get_nowait(status_queue)
               IN  /\ Len(r.updates) < MaxUpdates
                   /\ status_queue' = got.rest
                   /\ requests' = Step(requests, r,
                         [r EXCEPT !.pc = "test", !.updates = Append(@, got.item)])
                   /\ UNCHANGED last
          ELSE /\ requests' = requests (-) One(r)
               /\ last' = PollResponse(r.updates)
               /\ UNCHANGED status_queue
    /\ UNCHANGED <<issued, tasks, detached, nextId, backlog, running,
                   file, torn, calls, model_loaded, progress_callbacks>>

NextPoll ==
    \/ WorkerSteps
    \/ \E e \in BagToSet(running) : ProcFinal(e)
    \/ PollBegin
    \/ \E r \in BagToSet(requests) : PollTest(r)
    \/ \E r \in BagToSet(requests) : PollGet(r)

\* one download request for one URL has been answered
InitPoll == InitRun /\ DOMAIN tasks = {1}

SpecPoll == InitPoll /\ [][NextPoll]_vars

(***************************************************************************)
(* self._lock, a threading.Lock: the methods of TaskManager that take it,  *)
(* statement by statement, while the workers notify and save without it.   *)
(***************************************************************************)
LockOps ==
    {"create_task", "get_all_tasks", "get_tasks_by_status", "remove_task",
     "clear_completed_tasks"}

\* a thread inside a method of TaskManager; arg: the task_id it was given,
\* task: the DownloadTask it has built, created: the list it has collected,
\* holds: it is inside a `with self._lock`
Call(op, arg, task) ==
    [kind |-> "call", pc |-> "acquire", op |-> op, id |-> 0, arg |-> arg,
     urls |-> <<>>, created |-> <<>>, task |-> task, holds |-> FALSE]

\* the method is entered; create_task builds its task in front of the lock
LkCall(op, arg, url) ==
    /\ BagCardinality(requests) < MaxInflight
    /\ issued < MaxRequests
    /\ issued' = issued + 1
    /\ (op = "remove_task") = (arg # 0)
    /\ IF op = "create_task"
          THEN /\ nextId <= MaxTasks
               /\ nextId' = nextId + 1
               /\ requests' = requests (+)
                     One(Call(op, arg,
                              create_task(nextId, url, "mp3", "medium", FALSE)))
          ELSE /\ url = "u1"
               /\ requests' = requests (+) One(Call(op, arg, <<>>))
               /\ UNCHANGED nextId
    /\ UNCHANGED <<tasks, detached, backlog, running, status_queue, file,
                   torn, calls, model_loaded, progress_callbacks, last>>

\* GET /api/statistics is entered
LkCallStats ==
    /\ BagCardinality(requests) < MaxInflight
    /\ issued < MaxRequests
    /\ issued' = issued + 1
    /\ requests' = requests (+) One(Call("get_statistics", 0, <<>>))
    /\ UNCHANGED <<tasks, detached, nextId, backlog, running, status_queue,
                   file, torn, calls, model_loaded, progress_callbacks, last>>

\* with self._lock: the thread blocks until no thread holds the lock, its
\* own earlier acquisition included; get_statistics goes on as the pass
\* over the values
LkAcquire(r) ==
    /\ r.kind = "call" /\ r.pc = "acquire"
    /\ ~LockHeld
    /\ requests' = Step(requests, r,
          IF r.op = "get_statistics"
             THEN StatsThread([total |-> Cardinality(DOMAIN tasks),
                               counts |-> [st \in DownloadStatus |-> 0]],
                              SortedSeq(DOMAIN tasks), <<>>)
             ELSE [r EXCEPT !.pc = "body", !.holds = TRUE])
    /\ UNCHANGED <<issued, tasks, detached, nextId, backlog, running,
                   status_queue, file, torn, calls, model_loaded,
                   progress_callbacks, last>>

\* a _save_tasks that takes the lock itself
save_tasks_entry_locked == "acquire"

\* _save_tasks: its first statement is the call of persistence.save_tasks
save_tasks_entry == "dump"

\* the statements under the lock, up to a call of _save_tasks
LkBody(r) ==
    /\ r.kind = "call" /\ r.pc = "body"
    /\ CASE r.op = "create_task" ->
              /\ tasks' = tasks @@ (r.task.id :> r.task)
              /\ requests' = Step(requests, r, [r EXCEPT !.pc = "release"])
              /\ UNCHANGED detached
         [] r.op = "get_all_tasks" ->
              /\ requests' = Step(requests, r,
                    [r EXCEPT !.pc = "release",
                              !.created = SortedSeq(DOMAIN tasks)])
              /\ UNCHANGED <<tasks, detached>>
         [] r.op = "get_tasks_by_status" ->
              /\ requests' = Step(requests, r,
                    [r EXCEPT !.pc = "release", !.created = queued_tasks])
              /\ UNCHANGED <<tasks, detached>>
         [] r.op = "remove_task" ->
              IF r.arg \in DOMAIN tasks
                 THEN /\ Delete({r.arg})
                      /\ requests' = Step(requests, r,
                            [r EXCEPT !.pc = save_tasks_entry])
                 ELSE /\ requests' = Step(requests, r,
                            [r EXCEPT !.pc = "release"])
                      /\ UNCHANGED <<tasks, detached>>
         [] r.op = "clear_completed_tasks" ->
              /\ Delete(Range(completed_tasks(tasks)))
              /\ requests' = Step(requests, r,
                    [r EXCEPT !.created = completed_tasks(tasks),
                              !.pc = IF completed_tasks(tasks) # <<>>
                                        THEN save_tasks_entry
                                        ELSE "release"])
    /\ UNCHANGED <<issued, nextId, backlog, running, status_queue, file,
                   torn, calls, model_loaded, progress_callbacks, last>>

\* _save_tasks under the lock of remove_task or clear_completed_tasks
LkSave(r) ==
    /\ r.kind = "call" /\ r.pc = "dump"
    /\ file' = save_tasks(tasks) /\ torn' = FALSE
    /\ requests' = Step(requests, r, [r EXCEPT !.pc = "release"])
    /\ UNCHANGED <<issued, tasks, detached, nextId, backlog, running,
                   status_queue, calls, model_loaded, progress_callbacks,
                   last>>

\* the end of the with block; create_task goes on without the lock
LkRelease(r) ==
    /\ r.kind = "call" /\ r.pc = "release"
    /\ requests' =
          IF r.op = "create_task"
             THEN Step(requests, r, [r EXCEPT !.pc = "notify", !.holds = FALSE])
             ELSE requests (-) One(r)
    /\ UNCHANGED <<issued, tasks, detached, nextId, backlog, running,
                   status_queue, file, torn, calls, model_loaded,
                   progress_callbacks, last>>

\* create_task after its with block: _notify_progress and _save_tasks
LkNotify(r) ==
    /\ r.kind = "call" /\ r.pc = "notify"
    /\ CanPublish
    /\ notify_progress(tasks, r.task)
    /\ requests' = requests (-) One(r)
    /\ UNCHANGED <<issued, tasks, detached, nextId, backlog, running,
                   model_loaded, progress_callbacks, last>>

\* the steps of the thread that holds the lock
Holding ==
    \/ \E r \in BagToSet(requests) : LkBody(r)
    \/ \E r \in BagToSet(requests) : LkSave(r)
    \/ \E r \in BagToSet(requests) : LkRelease(r)
    \/ \E r \in BagToSet(requests) : StatsVisit(r)
    \/ \E r \in BagToSet(requests) : StatsReturn(r)

NextLock ==
    \/ NextRun
    \/ \E op \in LockOps, arg \in Ids \cup {0}, url \in Urls :
          LkCall(op, arg, url)
    \/ LkCallStats
    \/ \E r \in BagToSet(requests) : LkAcquire(r)
    \/ Holding
    \/ \E r \in BagToSet(requests) : LkNotify(r)

InitLock == Submitted(0) /\ DOMAIN tasks = {1}

\* a thread that holds the lock is scheduled until it has left the block
SpecLock == InitLock /\ [][NextLock]_vars /\ WF_vars(Holding)

(***************************************************************************)
(* Properties.                                                             *)
(***************************************************************************)
RECURSIVE Copies(_, _)
Copies(B, S) ==
    IF S = {} THEN 0
    ELSE LET x == CHOOSE y \in S : TRUE
         IN  CopiesIn(x, B) + Copies(B, S \ {x})

\* executions of _process_task in progress for the task
InProgress(id) == Copies(running, {e \in BagToSet(running) : e.task = id})

\* submissions of the task waiting in the pool
Waiting(id) == Cardinality({i \in DOMAIN backlog : backlog[i] = id})

\* the request thread r returns in this step
Returns(r) == requests' = requests (-) One(r)

\* the execution e ends in this step
Ends(e) == running' = running (-) One(e)

\* C1: for every task id, at most one execution of _process_task for that
\* id is in progress at any time.
C1_AtMostOneExecution == \A id \in DOMAIN tasks : InProgress(id) <= 1

\* C2: there are never two tasks with the same URL that both have a status
\* other than Failed.
C2_NoDuplicateActiveUrl ==
    \A a, b \in DOMAIN tasks :
        (a # b /\ tasks[a].url = tasks[b].url)
            => (tasks[a].status = "FAILED" \/ tasks[b].status = "FAILED")

\* C3: loading the snapshot that save_tasks wrote yields a task for every
\* entry of the snapshot, with the field values that were saved.
C3_RoundTrip ==
    LET loaded == load_tasks(file)
    IN  /\ DOMAIN loaded = DOMAIN file
        /\ \A id \in DOMAIN loaded :
              [loaded[id] EXCEPT !.created_at = isoformat(@)] = file[id]

\* C4: when an execution ends whose task asked for transcription, with the
\* transcription service available and transcribe_task having returned
\* False, the task is Completed with empty transcription and empty error
\* message.
C4_TranscriptionFailureKeepsCompleted ==
    [][\A e \in BagToSet(running) :
          (/\ e.pc = "final" /\ e.tx = "False"
           /\ wants_transcription(tasks[e.task])
           /\ Ends(e))
          => (/\ tasks'[e.task].status = "COMPLETED"
              /\ tasks'[e.task].transcription = ""
              /\ tasks'[e.task].error_message = "")]_vars

\* C5: completed_at is set if and only if the status is Completed.
C5_CompletedAtIffCompleted ==
    \A id \in DOMAIN tasks :
        (tasks[id].completed_at # NoTime) <=> (tasks[id].status = "COMPLETED")

\* C6: every task whose status is Completed has a non-empty filename and
\* progress exactly 100.
C6_CompletedHasFileAndFullProgress ==
    \A id \in DOMAIN tasks :
        tasks[id].status = "COMPLETED"
            => (tasks[id].filename # "" /\ tasks[id].progress = 100)

\* C7: when cancel_task returns after its test, a task that is Queued at
\* that moment becomes Failed with "Cancelled by user", and a task that is
\* not Queued is left unchanged.
C7_CancelOnlyQueued ==
    [][\A r \in BagToSet(requests) :
          (r.kind = "cancel" /\ Returns(r))
          => IF tasks[r.id].status = "QUEUED"
                THEN /\ tasks'[r.id].status = "FAILED"
                     /\ tasks'[r.id].error_message = CancelMessage
                ELSE tasks' = tasks]_vars

\* C8: a retry_task call on a task that is absent or not Failed changes no
\* field of any task, submits nothing to the pool and leaves no thread that
\* could do so later.
C8_RetryRejected ==
    [][\A id \in Ids :
          (/\ ReqRetry(id)
           /\ ~(id \in DOMAIN tasks /\ tasks[id].status = "FAILED"))
          => (/\ tasks' = tasks /\ backlog' = backlog
              /\ running' = running /\ requests' = requests)]_vars

\* a retry was rejected for a task that is in the store and not Failed
C8_Witness ==
    /\ last.op = "retry" /\ ~last.accepted
    /\ last.id \in DOMAIN tasks
    /\ tasks[last.id].status = "DOWNLOADING"

\* C9: when retry_task goes through, the task is Queued with progress 0 and
\* empty speed, eta, error message and filename, it is submitted to the
\* pool exactly once, and id, url, format, quality and creation time are
\* unchanged.
C9_RetryResets ==
    [][\A r \in BagToSet(requests) :
          (r.kind = "retry" /\ Returns(r))
          => (/\ tasks'[r.id].status = "QUEUED"
              /\ tasks'[r.id].progress = 0
              /\ tasks'[r.id].speed = "" /\ tasks'[r.id].eta = ""
              /\ tasks'[r.id].error_message = ""
              /\ tasks'[r.id].filename = ""
              /\ tasks'[r.id].id = tasks[r.id].id
              /\ tasks'[r.id].url = tasks[r.id].url
              /\ tasks'[r.id].format_type = tasks[r.id].format_type
              /\ tasks'[r.id].quality = tasks[r.id].quality
              /\ tasks'[r.id].created_at = tasks[r.id].created_at
              /\ Len(backlog') = Len(backlog) + 1
              /\ backlog' = Append(backlog, r.id)
              /\ running' = running
              /\ \A id \in DOMAIN tasks \ {r.id} : tasks'[id] = tasks[id])]_vars

\* a retry went through on a task that had failed with a message, a title
\* and some progress, and the task waits in the pool
C9_Witness ==
    /\ last.op = "retry" /\ last.accepted
    /\ last.id \in DOMAIN tasks
    /\ tasks[last.id].status = "QUEUED"
    /\ tasks[last.id].title # ""
    /\ tasks[last.id].error_message = ""
    /\ Waiting(last.id) = 1

\* C10: a rejected retry or cancel is answered with an outcome that differs
\* from the outcome of a successful one.
Outcome(resp) == <<resp.code, resp.body, resp.ret>>

C10_RejectionReported ==
    /\ (last.op = "retry" /\ ~last.accepted)
          => Outcome(last) # Outcome(retry_response(last.id, TRUE))
    /\ (last.op = "cancel" /\ ~last.accepted)
          => Outcome(last) # Outcome(cancel_response(last.id, TRUE))

\* C11: when clear_completed_tasks returns, no task that it read as
\* Completed is in the store, and every task it read with another status is
\* in the store with the fields it has at that moment; a Completed task still
\* in the store was completed by a worker after the scan.
C11_ClearCompleted ==
    [][\A r \in BagToSet(requests) :
          (r.kind = "clear" /\ Returns(r))
          => /\ \A id \in DOMAIN r.seen :
                   IF r.seen[id] = "COMPLETED"
                      THEN id \notin DOMAIN tasks'
                      ELSE id \in DOMAIN tasks' /\ tasks'[id] = tasks[id]
             /\ DOMAIN tasks' \subseteq DOMAIN r.seen
             /\ file' = save_tasks(tasks') \/ r.created = <<>>]_vars

\* a clear deleted one Completed task and left a task that is downloading
C11_Witness ==
    /\ last.op = "clear" /\ last.id = 1
    /\ \E id \in DOMAIN tasks : tasks[id].status = "DOWNLOADING"
    /\ file = save_tasks(tasks)

\* C12: every task whose status is Failed has a non-empty error message.
C12_FailedHasMessage ==
    \A id \in DOMAIN tasks :
        tasks[id].status = "FAILED" => tasks[id].error_message # ""

\* C13: the snapshot file never holds a partially written or interleaved
\* serialization.
C13_SnapshotNeverTorn == ~torn

\* nothing is submitted, running or being handled
Quiescent == backlog = <<>> /\ running = EmptyBag /\ requests = EmptyBag

\* C14: whenever no worker and no request is running, the snapshot holds
\* exactly the tasks of the store with their current field values.
C14_SnapshotIsStoreAtRest ==
    Quiescent => (~torn /\ file = save_tasks(tasks))

\* the entries of the snapshot that fail to deserialize
Corrupted == {id \in DOMAIN file : file[id].created_at[1] # "iso"}

\* C15: after a start on a snapshot of N entries of which exactly one is
\* corrupted, the store holds the other N-1 tasks.
C15_CorruptedEntrySkipped ==
    (last.op = "startup" /\ ~torn /\ Cardinality(Corrupted) = 1)
        => DOMAIN tasks = DOMAIN file \ Corrupted

\* C16: the task create_task returns is in the store with status Queued and
\* progress 0, under an identifier that no task in the store and no task
\* object outside it has, and that is above every identifier given out
\* before (identifiers of removed tasks included).
C16_CreatedTaskIsFresh ==
    [][nextId' # nextId
          => LET k == nextId
             IN  /\ k \notin DOMAIN tasks /\ k \notin DOMAIN detached
                 /\ \A id \in DOMAIN tasks \cup DOMAIN detached
                                \cup Range(backlog) : id < k
                 /\ DOMAIN tasks' = DOMAIN tasks \cup {k}
                 /\ tasks'[k].id = k
                 /\ tasks'[k].status = "QUEUED"
                 /\ tasks'[k].progress = 0
                 /\ nextId' = k + 1]_vars

\* task 2 was created for the URL of task 1 after task 1 had been removed
C16_Witness ==
    /\ 1 \notin DOMAIN tasks /\ 2 \in DOMAIN tasks
    /\ tasks[2].url = "u1" /\ tasks[2].status = "QUEUED"

\* identifiers given out and no longer in the store
Removed == (1..(nextId - 1)) \ DOMAIN tasks

\* C19: no event for a removed identifier is appended to the pollable queue,
\* and a removed identifier does not come back into the store or into the
\* snapshot.
C19_RemovedIdIsSilent ==
    [][/\ Len(status_queue') > Len(status_queue)
            => status_queue'[Len(status_queue')].task.id \in DOMAIN tasks'
       /\ \A id \in Removed :
             id \notin DOMAIN tasks' /\ id \notin DOMAIN file']_vars

\* C17: a call of _notify_progress appends exactly one event describing the
\* task to the status queue and calls every registered callback once, in
\* registration order; a callback that raises does not stop the later ones,
\* nothing propagates to the caller, and the snapshot is saved afterwards.
C17_NotifyCallsEveryCallback ==
    [][Len(status_queue') > Len(status_queue) =>
          /\ \E id \in DOMAIN tasks' :
                status_queue' = Append(status_queue, StatusUpdate(tasks'[id]))
          /\ calls'.invoked = progress_callbacks
          /\ ~calls'.propagated
          /\ file' = save_tasks(tasks')
          /\ ~torn']_vars

C17_Witness ==
    /\ Len(progress_callbacks) = 2
    /\ progress_callbacks[1].raises
    /\ calls.invoked = progress_callbacks
    /\ status_queue # <<>>
    /\ file = save_tasks(tasks)

\* the calls of get_status_updates in progress
Pollers(reqs) == {r \in BagToSet(reqs) : r.kind = "progress"}

Unavailable(e) == TaskObject(e.task).metadata.enable_transcription /\ ~is_available

C21_SuccessfulDownloadCompletes ==
    [][\A e \in BagToSet(running) :
          (/\ ~TaskObject(e.task).metadata.enable_transcription
           /\ e.pc = "final" /\ Ends(e))
          => /\ tasks'[e.task].status = "COMPLETED"
             /\ tasks'[e.task].progress = 100
             /\ tasks'[e.task].filename = FinalName(tasks[e.task])
             /\ tasks'[e.task].completed_at # NoTime]_vars

\* the task's worker has finished, and its last event, which says all of
\* this, is in the queue
C21_Witness ==
    /\ running = EmptyBag /\ backlog = <<>>
    /\ \E id \in DOMAIN tasks :
          /\ ~tasks[id].metadata.enable_transcription
          /\ tasks[id].status = "COMPLETED" /\ tasks[id].progress = 100
          /\ tasks[id].filename = FinalName(tasks[id])
          /\ status_queue = <<StatusUpdate(tasks[id])>>

\* C22: an exception raised while a worker processes a task is caught in
\* _process_task: the task becomes Failed with the exception's message,
\* nothing reaches the caller of a request, and the worker is free again, the
\* submissions that wait being kept.
C22_WorkerExceptionBecomesFailed ==
    [][\A e \in BagToSet(running) :
          (e.pc = "except" /\ Ends(e))
          => /\ tasks'[e.task].status = "FAILED"
             /\ tasks'[e.task].error_message = e.exc
             /\ last' = last
             /\ FreeWorkers' = FreeWorkers + 1
             /\ backlog' = backlog]_vars

\* task 1 failed in _process_task's except, with a message that download's own
\* handler would have replaced, and task 2 was processed after that
C22_Witness ==
    /\ DOMAIN tasks = {1, 2}
    /\ tasks[1].status = "FAILED"
    /\ tasks[1].error_message = "ffprobe and ffmpeg not found"
    /\ tasks[2].status = "COMPLETED"
    /\ running = EmptyBag /\ backlog = <<>>

\* C23: a download request returns exactly the tasks it created: every new
\* task goes into the list of the request that created it, and the response
\* carries that list.  When every URL was skipped as a duplicate the request
\* has created nothing, submits nothing to the pool, and is answered with an
\* error, not with "started".
C23_DownloadReturnsCreated ==
    [][/\ nextId' # nextId =>
            \E r \in BagToSet(requests) :
               /\ r.kind = "download"
               /\ DOMAIN tasks' = DOMAIN tasks \cup {nextId}
               /\ \E r2 \in BagToSet(requests') :
                     /\ requests' = Step(requests, r, r2)
                     /\ r2.created = Append(r.created, nextId)
       /\ \A r \in BagToSet(requests) :
            (r.kind = "download" /\ Returns(r)) =>
               /\ tasks' = tasks
               /\ IF r.created = <<>>
                     THEN /\ backlog' = backlog
                          /\ last'.code = 400 /\ ~last'.accepted
                          /\ last'.body # "started"
                     ELSE /\ last'.code = 200 /\ last'.accepted
                          /\ last'.body = "started"
                          /\ last'.ret = r.created
                          /\ last'.id = Len(r.created)]_vars

\* a request whose only URL belongs to a task that is not Failed was refused
C23_Witness ==
    /\ last = start_download_response(<<>>)
    /\ \E id \in DOMAIN tasks : tasks[id].status # "FAILED"
    /\ issued = 2 /\ nextId = 2

RECURSIVE Sum(_, _)
Sum(f, S) ==
    IF S = {} THEN 0
    ELSE LET x == CHOOSE y \in S : TRUE IN f[x] + Sum(f, S \ {x})

\* C24: get_statistics returns, for every status, the number of tasks it read
\* with that status in one pass under the lock; the six counts add up to the
\* total, and the total is the number of tasks in the store during the pass.
C24_StatisticsAddUp ==
    [][\A r \in BagToSet(requests) :
          (r.kind = "stats" /\ Returns(r))
          => /\ last'.ret = r.stats
             /\ \A st \in DownloadStatus :
                   r.stats.counts[st] =
                      Cardinality({id \in DOMAIN r.seen : r.seen[id] = st})
             /\ Sum(r.stats.counts, DownloadStatus) = r.stats.total
             /\ r.stats.total = Cardinality(DOMAIN tasks)
             /\ DOMAIN r.seen = DOMAIN tasks]_vars

\* after a removal the statistics of the task that is left were returned,
\* and it was counted as downloading
C24_Witness ==
    /\ last.op = "statistics"
    /\ last.ret.total = 1
    /\ last.ret.counts["DOWNLOADING"] = 1
    /\ nextId = 3 /\ Cardinality(DOMAIN tasks) = 1

\* the Completed tasks of the store created more than max_age_hours before now
OldCompleted(store, max_age_hours, now) ==
    {id \in DOMAIN store :
        store[id].status = "COMPLETED" /\ now - store[id].created_at > max_age_hours}

\* C25: cleanup_old_tasks(tasks, max_age_hours) removes from the store and
\* from the snapshot exactly the Completed tasks created more than
\* max_age_hours ago, and leaves every other task in place.
C25_CleanupRemovesOldCompleted ==
    [][last'.op = "cleanup" =>
          LET old == OldCompleted(tasks, last'.ret.max_age_hours, last'.ret.now)
          IN  /\ tasks' = [id \in DOMAIN tasks \ old |-> tasks[id]]
              /\ file' = save_tasks(tasks')]_vars

\* the transitions of the status that the specification allows
AllowedTransitions ==
    {<<"QUEUED", "DOWNLOADING">>, <<"DOWNLOADING", "CONVERTING">>,
     <<"DOWNLOADING", "COMPLETED">>, <<"CONVERTING", "COMPLETED">>,
     <<"COMPLETED", "TRANSCRIBING">>, <<"TRANSCRIBING", "COMPLETED">>,
     <<"FAILED", "QUEUED">>}
        \cup {<<st, "FAILED">> : st \in {"QUEUED", "DOWNLOADING", "CONVERTING",
                                         "TRANSCRIBING"}}

\* C26: every change of a task's status is an allowed transition; no worker
\* or progress-hook step moves a task from Failed, Completed or Converting
\* back to Downloading, or from Failed to Completed.
C26_OnlyAllowedTransitions ==
    [][\A id \in DOMAIN tasks \cap DOMAIN tasks' :
          tasks'[id].status # tasks[id].status
             => <<tasks[id].status, tasks'[id].status>> \in AllowedTransitions]_vars

\* the task was cancelled and has not been retried
Cancelled(id) ==
    /\ id \in DOMAIN tasks
    /\ tasks[id].status = "FAILED"
    /\ tasks[id].error_message = CancelMessage

\* C28: after cancel_task has succeeded on a Queued task, also one that waits
\* in the pool, the task keeps status Failed with the cancellation message
\* and no download is started for it, until retry_task is called for it.
C28_CancelledStaysCancelled ==
    [][\A id \in DOMAIN tasks :
          (Cancelled(id) /\ InProgress(id) = 0)
          => /\ InProgress(id)' = 0
             /\ \/ Cancelled(id)'
                \/ tasks'[id].status = "QUEUED"]_vars

\* C27: when the worker of a task has finished, the status of the task is
\* Completed or Failed; a task whose transcription ran is back in Completed
\* and is not left in Transcribing, Downloading or Converting.
C27_FinishedTaskIsTerminal ==
    [][\A e \in BagToSet(running) :
          Ends(e) => tasks'[e.task].status \in {"COMPLETED", "FAILED"}]_vars

\* C29: at most MAX_CONCURRENT_DOWNLOADS executions of _process_task are in
\* progress at any time, over all tasks; the submissions beyond that wait in
\* the pool's queue, which loses an entry only to the execution it starts.
C29_PoolIsBounded ==
    /\ [](BagCardinality(running) <= MAX_CONCURRENT_DOWNLOADS)
    /\ [][\/ /\ Len(backlog') >= Len(backlog)
             /\ SubSeq(backlog', 1, Len(backlog)) = backlog
          \/ \E i \in DOMAIN backlog :
                /\ backlog' = RemoveAt(backlog, i)
                /\ running' = running (+) One(Execution(backlog[i]))]_vars

\* every worker is busy and a submission waits
C29_Witness ==
    /\ BagCardinality(running) = MAX_CONCURRENT_DOWNLOADS
    /\ backlog # <<>>

\* what download stores for the errors of the collaborator
DownloadErrorTexts == {"ERROR: Video unavailable", FfmpegHelp, NotFoundMessage}

\* C30: when the download of a dispatched task fails, the task becomes Failed
\* with the error text, the run ends there: no transcription, no second
\* download, no new submission; and a task that is Failed is submitted again
\* only by retry_task.
C30_FailedDownloadStops ==
    [][/\ \A e \in BagToSet(running) :
            (e.pc \in {"info", "dl", "pp"} /\ Ends(e))
            => /\ TaskObject(e.task)'.status = "FAILED"
               /\ TaskObject(e.task)'.error_message \in DownloadErrorTexts
               /\ e.tx = "none"
               /\ BagCardinality(running') = BagCardinality(running) - 1
               /\ backlog' = backlog
       /\ \A id \in DOMAIN tasks :
            (tasks[id].status = "FAILED" /\ Waiting(id)' > Waiting(id))
            => \E r \in BagToSet(requests) :
                  r.kind = "retry" /\ r.id = id /\ Returns(r)]_vars

\* a download failed on a missing ffmpeg, the worker is gone and nothing waits
C30_Witness ==
    /\ \E id \in DOMAIN tasks :
          tasks[id].status = "FAILED" /\ tasks[id].error_message = FfmpegHelp
    /\ running = EmptyBag /\ backlog = <<>>

\* C31: every status change of a task in the store is followed, before the
\* next status change of the task, by an event that carries the new status:
\* the status a task leaves is the one its last event carried; and the last
\* event of a run carries the status the task has when its worker finishes.
C31_EveryStatusIsPublished ==
    [][/\ \A id \in DOMAIN tasks \cap DOMAIN tasks' :
            tasks'[id].status # tasks[id].status
            => /\ id \in DOMAIN calls.announced
               /\ calls.announced[id] = tasks[id].status
       /\ \A e \in BagToSet(running) :
            (Ends(e) /\ e.task \in DOMAIN tasks')
            => calls'.announced[e.task] = tasks'[e.task].status]_vars

\* C32: a save that fails lets nothing out of _save_tasks or
\* _notify_progress: the tasks are as the notification published them, no task
\* leaves the store, the worker goes on (a submission taken from the pool runs),
\* and the file is left alone or known to be incomplete; the next save that
\* succeeds writes the whole store (a file that stops being incomplete holds
\* the serialized store).
C32_FailedSaveIsHarmless ==
    [][Len(status_queue') > Len(status_queue) =>
          LET ev == status_queue'[Len(status_queue')]
          IN  /\ DOMAIN tasks' = DOMAIN tasks
              /\ \A id \in DOMAIN tasks :
                    IF id = ev.task.id THEN to_dict(tasks'[id]) = ev.task
                    ELSE tasks'[id] = tasks[id]
              /\ Len(backlog') < Len(backlog)
                    => BagCardinality(running') = BagCardinality(running) + 1
              /\ \/ file' = save_tasks(tasks') /\ ~torn'
                 \/ file' = file /\ torn' = torn
                 \/ file' = <<>> /\ torn'
              /\ last' = last]_vars

\* a save failed halfway when the worker started: the file is incomplete, the
\* task is Downloading in the store and its worker is running
C32_Witness ==
    /\ torn
    /\ \E e \in BagToSet(running) :
          e.pc = "info" /\ tasks[e.task].status = "DOWNLOADING"

\* C33: every task a download request has created leaves status Queued in
\* the end, when the pool and the request threads are scheduled fairly and
\* the collaborators return, also when more submissions wait than there are
\* workers.
C33_QueuedTaskIsStarted ==
    \A id \in Ids :
        (id \in DOMAIN tasks /\ tasks[id].status = "QUEUED")
            ~> (id \in DOMAIN tasks /\ tasks[id].status # "QUEUED")

\* both workers are busy, another submission waits, and a task is Queued
C33_Witness ==
    /\ BagCardinality(running) = MAX_CONCURRENT_DOWNLOADS
    /\ backlog # <<>>
    /\ \E id \in DOMAIN tasks : tasks[id].status = "QUEUED"

\* the threads inside a with self._lock block
LockHolders ==
    {r \in BagToSet(requests) :
        r.kind \in {"clear", "stats"} \/ (r.kind = "call" /\ r.holds)}

\* C34: the store lock never deadlocks: while a thread is inside a with
\* block no second thread is inside one, a thread that holds the lock is
\* never at an acquisition of it (the _save_tasks that remove_task and
\* clear_completed_tasks call under the lock takes no lock), and the lock,
\* once held, is released again.
C34_StoreLockNeverDeadlocks ==
    /\ [](\A r \in LockHolders :
             /\ r.pc # "acquire"
             /\ CopiesIn(r, requests) = 1
             /\ \A q \in LockHolders : q = r)
    /\ (LockHeld ~> ~LockHeld)

\* remove_task or clear_completed_tasks is saving under the lock while a
\* second thread waits for the lock
C34_Witness ==
    \E r \in LockHolders, q \in BagToSet(requests) :
        /\ r.kind = "call"
        /\ r.op \in {"remove_task", "clear_completed_tasks"}
        /\ r.pc = "dump"
        /\ q.kind = "call" /\ q.pc = "acquire" /\ ~q.holds

====
